---- MODULE Spec2Model ----
(***************************************************************************)
(* Model of ReinaManager's game monitor (src-tauri/src/utils/               *)
(* game_monitor.rs): the monitoring thread run_game_monitor, the candidate  *)
(* selector select_best_pid, the directory enumeration                      *)
(* get_processes_in_directory and the window query has_window_for_pid.      *)
(*                                                                         *)
(* The results of the OS queries (is_process_running,                       *)
(* is_window_foreground_for_pid, has_window_for_pid, the process table of   *)
(* sysinfo) and of the event sink (AppHandle::emit) are inputs of the       *)
(* actions, drawn from small sets.                                          *)
(***************************************************************************)
EXTENDS Integers, Sequences, FiniteSets, TLC

\* ------------------------------------------------------------------ bounds

\* PIDs the monitoring loop can meet, and the larger set the selector is
\* checked on.
PIDS == {100, 205}
CandidatePids == {100, 205, 300}

\* Session threads and game ids.
Tasks == {1, 2}
GameIds == {1, 2}

\* Values get_timestamp can return when a session starts.
Timestamps == {1000, 1001}
PairTimestamps == {1000}

\* Seconds the wall clock can advance during one thread::sleep of 1 second:
\* Untimed in the specifications that do not follow the clock, the sleep's
\* own second or one more in the specification that does.
Untimed == {0}
ClockAdvances == {1, 2}

\* Largest accumulated_seconds and number of adoptions explored in the
\* specification of the launch command.
MaxLaunchSeconds == 2
MaxLaunchSwitches == 1

\* The same two caps for the specification with the wall clock, and the
\* longest wall time (seconds since start_time) it follows a session for.
MaxClockSeconds == 2
MaxClockSwitches == 1
MaxElapsed == 6

\* The session on a platform without a window manager: the seconds and the
\* adoptions it is followed for.
MaxOtherSeconds == 2
MaxOtherSwitches == 2

\* The session followed over several adoptions: its seconds and adoptions.
MaxSwitchSeconds == 1
MaxSwitchAdoptions == 3

\* The session followed on the wall clock up to its first progress event and
\* the end after it: its seconds, its adoptions, and its wall time.
MaxWallSeconds == 30
MaxWallSwitches == 1
MaxWallElapsed == 33

\* Largest accumulated_seconds explored in the single-session specification.
MaxSeconds == 91
\* Most adoptions explored per session in the single-session specification.
MaxSwitches == 1
\* The same two caps for the specification with two concurrent sessions.
MaxPairSeconds == 1
MaxPairSwitches == 0

\* ------------------------------------------------------- program constants

\* let max_failures = 3u32;
max_failures_original == 2
max_failures == 3

\* accumulated_seconds % 30 == 0: the cadence of game-time-update.
UPDATE_INTERVAL_SECS == 30
\* accumulated_seconds / 60, accumulated_seconds % 60.
SECS_PER_MINUTE == 60

\* ---------------------------------------------------------------- helpers

\* All orders in which the elements of S can be listed without repetition.
RECURSIVE Orderings(_)
Orderings(S) ==
    IF S = {} THEN {<<>>}
    ELSE UNION {{<<x>> \o q : q \in Orderings(S \ {x})} : x \in S}

Range(q) == {q[i] : i \in DOMAIN q}

\* The first element of the vector that lies in S (for &pid in &pids { if .. return pid }).
FirstIn(pids, S) ==
    pids[CHOOSE i \in DOMAIN pids :
            /\ pids[i] \in S
            /\ \A j \in DOMAIN pids : j < i => pids[j] \notin S]

\* ------------------------------------------------------------------ paths

\* Paths are sequences of components; an absolute path begins with the root
\* component "/".  The executable_path arguments explored: the empty path, the
\* root, a bare file name, a file in the root and a file in a directory.
TargetPaths ==
    {<<>>, <<"/">>, <<"g.exe">>, <<"/", "g.exe">>, <<"/", "games", "g.exe">>}

\* The executables of running processes: in the directory, in a directory
\* under it, in a sibling directory, and one whose path sysinfo cannot read
\* (Process::exe is then the empty path).
ProcessPaths ==
    {<<"/", "games", "g.exe">>, <<"/", "games", "bin", "h.exe">>,
     <<"/", "other", "g.exe">>, <<>>}

\* Path::parent: None (the empty tuple) for the empty path and for the root,
\* else Some of the path without its last component.
parent(path) ==
    IF path = <<>> \/ path = <<"/">> THEN <<>>
    ELSE <<SubSeq(path, 1, Len(path) - 1)>>

\* Path::starts_with: base is a prefix of path, component by component.
RECURSIVE starts_with(_, _)
starts_with(path, base) ==
    IF base = <<>> THEN TRUE
    ELSE IF path = <<>> THEN FALSE
    ELSE Head(path) = Head(base) /\ starts_with(Tail(path), Tail(base))

\* The test without the subdirectories.
dir_matches_exactly(process_dir, target_dir) == process_dir = target_dir

\* if process_dir == target_dir || process_dir.starts_with(target_dir)
dir_matches(process_dir, target_dir) ==
    process_dir = target_dir \/ starts_with(process_dir, target_dir)

\* A System whose table is not refreshed before it is read.
refresh_processes_skipped(os, cache) == cache

\* sys.refresh_processes(): the System's table becomes the OS's table.
refresh_processes(os, cache) == os

\* The PIDs the loop of get_processes_in_directory pushes, for the table exe
\* (PID -> executable path) of the System.
processes_in_directory(executable_path, exe) ==
    LET target_dir == parent(executable_path)
    IN  IF target_dir = <<>> THEN {}
        ELSE {pid \in DOMAIN exe :
                 /\ parent(exe[pid]) # <<>>
                 /\ dir_matches(parent(exe[pid])[1], target_dir[1])}

\* ----------------------------------------------------- the candidate selector

\* get_processes_in_directory: sysinfo's process table is a HashMap<Pid, Process>;
\* the function pushes the PIDs under the target directory in the map's
\* iteration order, which is any order.  The set of Vec<u32> it can return for
\* the set `table` of running processes under the directory.
get_processes_in_directory(table) == Orderings(table)

\* get_process_id_by_path only logs and forwards.
get_process_id_by_path(table) == get_processes_in_directory(table)

\* select_best_pid with step 1 missing (a plausible slip: no early return when
\* the original PID holds the focus).
select_best_pid_no_early_return(original_pid, pids, fg, win) ==
    IF pids = <<>> THEN original_pid
    ELSE IF Range(pids) \cap fg # {} THEN FirstIn(pids, fg)
    ELSE IF Range(pids) \cap win # {} THEN FirstIn(pids, win)
    ELSE pids[1]

\* select_best_pid(original_pid, executable_path, sys).  pids is the vector the
\* directory enumeration returned, fg the set of PIDs for which
\* is_window_foreground_for_pid answers true and win the set for which
\* has_window_for_pid answers true.
select_best_pid(original_pid, pids, fg, win) ==
    IF original_pid \in fg THEN original_pid
    ELSE IF pids = <<>> THEN original_pid
    ELSE IF Range(pids) \cap fg # {} THEN FirstIn(pids, fg)
    ELSE IF Range(pids) \cap win # {} THEN FirstIn(pids, win)
    ELSE pids[1]

\* ---------------------------------------------------------------- state

VARIABLES
    \* --- one run_game_monitor thread per task
    pc,                   \* position of the thread
    game_id,              \* argument game_id
    process_id,           \* the watched PID (argument, then `let mut process_id`)
    accumulated_seconds,
    consecutive_failures,
    switched_process,
    start_time,           \* let start_time = get_timestamp();
    events,               \* every AppHandle::emit call so far, in order
    liveness_history,     \* results of is_process_running(process_id) since the
                          \* PID was last selected or adopted (the last three)
    last_poll,            \* queries and outcome of the thread's last loop iteration
    \* --- the selector applied to a snapshot
    sel_original, sel_table, sel_fg, sel_win,
    sel_pids, sel_result, sel_pids2, sel_result2,
    \* --- has_window_for_pid called from two threads
    FOUND_WINDOW, hw_pc, hw_pid, hw_result, hw_visible,
    \* --- the launch_game command, one call per session
    launch_pc,            \* "idle", "monitoring" (monitor_game has spawned the
                          \* thread), "returned"
    launch_pid,           \* the PID of the child the command started
    launch_result,        \* <<>> until the command returns, then its Result
    launch_attempt,       \* what the command met: the path checks, the result
                          \* of Command::spawn, the elevated retry
    \* --- the environment
    platform,             \* "windows" or "other": which cfg(target_os) variant
                          \* of the adapter functions is compiled
    clock,                \* the wall clock, in seconds since the epoch
    \* --- get_processes_in_directory on a process table that changes
    dir_path,             \* the argument executable_path, as path components
    os_exe,               \* the running processes: PID -> path of the executable
    sys_exe,              \* the same table as the System instance holds it
    dir_result,           \* <<>>, then the Vec<u32> of the last call
    dir_prev              \* <<>>, then the Vec<u32> of the call before

monitor_vars == <<pc, game_id, process_id, start_time, accumulated_seconds,
                  consecutive_failures, switched_process, events,
                  liveness_history, last_poll, clock>>
select_vars == <<sel_original, sel_table, sel_fg, sel_win,
                 sel_pids, sel_result, sel_pids2, sel_result2>>
window_vars == <<FOUND_WINDOW, hw_pc, hw_pid, hw_result, hw_visible>>
launch_vars == <<launch_pc, launch_pid, launch_result, launch_attempt>>
dir_vars == <<dir_path, os_exe, sys_exe, dir_result, dir_prev>>
env_vars == <<platform, dir_vars>>
vars == <<monitor_vars, select_vars, window_vars, launch_vars, env_vars>>

\* ------------------------------------------------ initial values per group

MonitorIdle ==
    /\ pc = [t \in Tasks |-> "none"]
    /\ game_id = [t \in Tasks |-> 1]
    /\ process_id = [t \in Tasks |-> 100]
    /\ accumulated_seconds = [t \in Tasks |-> 0]
    /\ consecutive_failures = [t \in Tasks |-> 0]
    /\ switched_process = [t \in Tasks |-> FALSE]
    /\ start_time = [t \in Tasks |-> 0]
    /\ events = <<>>
    /\ liveness_history = [t \in Tasks |-> <<>>]
    /\ last_poll = [t \in Tasks |-> <<>>]
    /\ clock = 0

SelectIdle ==
    /\ sel_original = 100
    /\ sel_table = {}
    /\ sel_fg = {}
    /\ sel_win = {}
    /\ sel_pids = <<>>
    /\ sel_result = <<>>
    /\ sel_pids2 = <<>>
    /\ sel_result2 = <<>>

WindowIdle ==
    /\ FOUND_WINDOW = FALSE
    /\ hw_pc = [t \in Tasks |-> "idle"]
    /\ hw_pid = [t \in Tasks |-> 100]
    /\ hw_result = [t \in Tasks |-> <<>>]
    /\ hw_visible = {}

LaunchIdle ==
    /\ launch_pc = [t \in Tasks |-> "idle"]
    /\ launch_pid = [t \in Tasks |-> 0]
    /\ launch_result = [t \in Tasks |-> <<>>]
    /\ launch_attempt = [t \in Tasks |-> <<>>]

\* No process table yet: System::new() holds no process.
DirectoryIdle ==
    /\ dir_path = <<>>
    /\ os_exe = <<>>
    /\ sys_exe = <<>>
    /\ dir_result = <<>>
    /\ dir_prev = <<>>

\* The build for Windows: the window queries ask the window manager.
EnvWindows == platform = "windows" /\ DirectoryIdle

\* The build for another platform: the window queries are the placeholders.
EnvOther == platform = "other" /\ DirectoryIdle

\* ------------------------------------- specification of the selector alone

\* A snapshot of the process state: the processes under the directory, the PIDs
\* that answer foreground, the PIDs that own a visible window.
InitSelect ==
    /\ MonitorIdle
    /\ WindowIdle
    /\ LaunchIdle
    /\ EnvWindows
    /\ sel_original \in CandidatePids
    /\ sel_table \in SUBSET CandidatePids
    /\ sel_fg \in SUBSET CandidatePids
    /\ sel_win \in SUBSET CandidatePids
    /\ sel_pids = <<>>
    /\ sel_result = <<>>
    /\ sel_pids2 = <<>>
    /\ sel_result2 = <<>>

\* One invocation of select_best_pid on the snapshot.
SelectOnce ==
    /\ sel_result = <<>>
    /\ \E pids \in get_process_id_by_path(sel_table) :
          /\ sel_pids' = pids
          /\ sel_result' = <<select_best_pid(sel_original, pids, sel_fg, sel_win)>>
    /\ UNCHANGED <<sel_original, sel_table, sel_fg, sel_win, sel_pids2, sel_result2>>
    /\ UNCHANGED <<monitor_vars, window_vars, launch_vars, env_vars>>

\* A second invocation on the same snapshot (another refresh of the process
\* table, or another thread's System instance: the enumeration order is again
\* any order).
SelectAgain ==
    /\ sel_result # <<>>
    /\ sel_result2 = <<>>
    /\ \E pids \in get_process_id_by_path(sel_table) :
          /\ sel_pids2' = pids
          /\ sel_result2' = <<select_best_pid(sel_original, pids, sel_fg, sel_win)>>
    /\ UNCHANGED <<sel_original, sel_table, sel_fg, sel_win, sel_pids, sel_result>>
    /\ UNCHANGED <<monitor_vars, window_vars, launch_vars, env_vars>>

NextSelect == SelectOnce \/ SelectAgain

SpecSelect == InitSelect /\ [][NextSelect]_vars

\* --------------------------------------------------- the monitoring thread

\* The vectors get_process_id_by_path can return in the loop.
AvailableVectors == UNION {get_process_id_by_path(table) : table \in SUBSET PIDS}

\* A placeholder that answers false.
is_window_foreground_for_pid_unknown(pid, fg) ==
    IF platform = "windows" THEN pid \in fg ELSE FALSE

\* is_window_foreground_for_pid: on Windows whether the foreground window
\* belongs to pid (fg is the set of PIDs for which it does), elsewhere true.
is_window_foreground_for_pid(pid, fg) ==
    IF platform = "windows" THEN pid \in fg ELSE TRUE

\* has_window_for_pid as a function of the visible windows: on Windows whether
\* pid owns one (win is the set of PIDs that do), elsewhere true.
has_window_for_pid(pid, win) ==
    IF platform = "windows" THEN pid \in win ELSE TRUE

\* The PIDs select_best_pid(original_pid, ..) can return, over every state of
\* the process table and of the windows.
SelectResults(original_pid) ==
    {select_best_pid(original_pid, pids,
                     {p \in PIDS : is_window_foreground_for_pid(p, fg)},
                     {p \in PIDS : has_window_for_pid(p, win)}) :
        pids \in AvailableVectors, fg \in SUBSET PIDS, win \in SUBSET PIDS}

\* The answers is_window_foreground_for_pid(pid) can give in a loop
\* iteration; capSec bounds the seconds a session counts.
ForegroundAnswers(t, capSec) ==
    {is_window_foreground_for_pid(process_id[t], fg) : fg \in SUBSET PIDS}
        \ (IF accumulated_seconds[t] < capSec THEN {} ELSE {TRUE})

\* unwrap_or(0) in place of expect: a clock before the epoch reads as 0.
get_timestamp_or_zero(clock_ok, now) == IF clock_ok THEN <<now>> ELSE <<0>>

\* get_timestamp: the seconds since the epoch, or a panic (<<>>) when
\* duration_since(UNIX_EPOCH) is an Err.
get_timestamp(clock_ok, now) == IF clock_ok THEN <<now>> ELSE <<>>

\* The timestamp taken after the settle delay.
start_timestamp_after_settle(now, slept) == now + slept

\* let start_time = get_timestamp(); thread::sleep(Duration::from_secs(1));
\* the timestamp is read before the settle delay.
start_timestamp(now, slept) == now

\* The minutes of the update rounded like those of the ended event.
progress_minutes_rounded(s) ==
    IF s % SECS_PER_MINUTE >= 30 THEN s \div SECS_PER_MINUTE + 1 ELSE s \div SECS_PER_MINUTE

\* let minutes = accumulated_seconds / 60;
progress_minutes(s) == s \div SECS_PER_MINUTE

\* A counter that a successful check leaves as it is.
failures_after_success_kept(n) == n

\* consecutive_failures = 0; after a check that found the process running
\* and after an adoption.
failures_after_success(n) == 0

\* A failure that is not counted.
failures_after_miss_uncounted(n) == n

\* consecutive_failures += 1;
failures_after_miss(n) == n + 1

\* json!({ "gameId": .., "processId": .., "startTime": .., "totalSeconds": ..,
\* "totalMinutes": .. }) handed to app_handle.emit; delivered is emit's Ok/Err.
\* The switched payload has the gameId and the newProcessId only.  time is
\* the currentTime of a progress event and the endTime of the ended event,
\* both read from the clock when the payload is built.
Event(t, kind, pid, started, secs, mins, ok) ==
    [task |-> t, gameId |-> game_id[t], kind |-> kind, processId |-> pid,
     startTime |-> started, totalSeconds |-> secs, totalMinutes |-> mins,
     time |-> (IF kind \in {"progress", "ended"} THEN clock ELSE 0),
     delivered |-> ok]

EventsOf(t) == SelectSeq(events, LAMBDA e : e.task = t)

CountOf(t, kind) == Len(SelectSeq(events, LAMBDA e : e.task = t /\ e.kind = kind))

\* Rounding that forgets the half-up step.
final_minutes_truncated(s) == s \div SECS_PER_MINUTE

\* let final_minutes = if remainder_seconds >= 30 { total_minutes + 1 } else { total_minutes };
final_minutes(s) ==
    LET total_minutes == s \div SECS_PER_MINUTE
        remainder_seconds == s % SECS_PER_MINUTE
    IN  IF remainder_seconds >= 30 THEN total_minutes + 1 ELSE total_minutes

\* An update once per counted minute.
update_due_every_minute(s) == s > 0 /\ s % SECS_PER_MINUTE = 0

\* if accumulated_seconds > 0 && accumulated_seconds % 30 == 0
update_due(s) == s > 0 /\ s % UPDATE_INTERVAL_SECS = 0

\* Counting every second the process is alive, focused or not.
counts_as_played_ignoring_focus(process_running, foreground) == process_running

\* else-branch of `if !process_running`, then `if is_window_foreground_for_pid(process_id)`.
counts_as_played(process_running, foreground) == process_running /\ foreground

\* The switch condition without the switched flag: any confirmed PID is adopted.
adopts_ignoring_flag(watched, matched_pid, switched, confirmed) == confirmed

\* The switch condition without the liveness confirmation of the matched PID.
adopts_unconfirmed(watched, matched_pid, switched, confirmed) ==
    watched # matched_pid \/ (~switched /\ confirmed)

\* if process_id != matched_pid || !switched_process { if is_process_running(matched_pid) {..} }
adopts(watched, matched_pid, switched, confirmed) ==
    (watched # matched_pid \/ ~switched) /\ confirmed

\* `.ok()` in place of `?`: the delivery failure is dropped and the thread goes on.
after_required_emit_ignoring(ok, next) == next

\* `.map_err(..)?` on game-session-started and game-time-update: the thread
\* returns Err when the delivery fails, and goes on to `next` otherwise.
after_required_emit(ok, next) == IF ok THEN next ELSE "err"

\* A loop that goes on polling after the ended event.
after_ended_emit_no_return(ok) == "sleep"

\* `.ok(); Ok(())` on game-session-ended: the delivery failure is dropped.
after_ended_emit_swallowing(ok) == "done"

\* `.map_err(..)?; Ok(())` on game-session-ended.
after_ended_emit(ok) == IF ok THEN "done" ELSE "err"

\* The record of one loop iteration's queries.
PollRecord(t, running, foreground, threshold, available, matched, confirmed, adopted) ==
    <<[running |-> running, foreground |-> foreground, threshold |-> threshold,
       available |-> available, matched |-> matched, confirmed |-> confirmed,
       adopted |-> adopted, watched |-> process_id[t],
       was_switched |-> switched_process[t],
       seconds_before |-> accumulated_seconds[t]]>>

\* The last three liveness results.
Remember(h, b) ==
    LET g == Append(h, b)
    IN  IF Len(g) > 3 THEN Tail(g) ELSE g

\* `.map_err(..)?` on game-process-switched too: the thread would return Err.
after_switched_emit_propagating(ok) == IF ok THEN "poll" ELSE "err"

\* The adoption without its `continue`: the iteration falls to the sleep.
after_switched_emit_sleeping(ok) == "sleep"

\* `.ok(); continue;` on game-process-switched: the Result of emit is dropped
\* and the loop goes to its next iteration, without the sleep.
after_switched_emit(ok) == "poll"

\* A switch that starts the count again for the new process.
seconds_reset_on_switch(s) == 0

\* The adoption assigns process_id, switched_process and consecutive_failures;
\* accumulated_seconds is not among them.
seconds_after_adoption(s) == s

\* The payload naming the PID that was watched until the switch.
switched_payload_pid_previous(watched, matched_pid) == watched

\* json!({ "gameId": game_id, "newProcessId": matched_pid })
switched_payload_pid(watched, matched_pid) == matched_pid

\* A supervisor that ends the host process when a session returns Err.
host_exits_on_error == \A u \in Tasks : pc[u] # "err"

\* if let Err(e) = run_game_monitor(..) { eprintln!(..) }: the error of a
\* session is printed by its own thread and nothing else happens, the host
\* process and its other threads go on.
host_running == TRUE

\* monitor_game's body: thread::spawn of run_game_monitor with the caller's
\* arguments; the JoinHandle is dropped.
monitor_game_call(t, g, pid) ==
    /\ pc[t] = "none"
    /\ game_id' = [game_id EXCEPT ![t] = g]
    /\ process_id' = [process_id EXCEPT ![t] = pid]
    /\ pc' = [pc EXCEPT ![t] = "spawned"]
    /\ UNCHANGED <<start_time, accumulated_seconds, consecutive_failures,
                   switched_process, events, liveness_history, last_poll, clock>>
    /\ UNCHANGED <<select_vars, window_vars, env_vars>>

\* monitor_game called with any arguments; the sessions are numbered in the
\* order of the calls.
monitor_game(t, games) ==
    /\ \A u \in Tasks : u < t => pc[u] # "none"
    /\ \E g \in games, pid \in PIDS : monitor_game_call(t, g, pid)
    /\ UNCHANGED launch_vars

\* run_game_monitor up to the loop: get_timestamp (which panics when the clock
\* is before the epoch), the settle sleep, the initial selection, the started
\* event.  A clock that could be read at the start can be read later on (it
\* does not go back before the epoch during a session).
run_game_monitor_start(t, stamps, advances) ==
    /\ pc[t] = "spawned"
    /\ host_running
    /\ \E clock_ok \in BOOLEAN, now \in stamps :
          LET stamp == get_timestamp(clock_ok, now)
          IN  IF stamp = <<>>
              THEN /\ pc' = [pc EXCEPT ![t] = "panicked"]
                   /\ UNCHANGED <<process_id, start_time, events, clock>>
              ELSE \E slept \in advances, selected \in SelectResults(process_id[t]),
                      ok \in BOOLEAN :
                      /\ start_time' =
                            [start_time EXCEPT ![t] = start_timestamp(stamp[1], slept)]
                      /\ clock' = now + slept
                      /\ process_id' = [process_id EXCEPT ![t] = selected]
                      /\ events' = Append(events,
                            Event(t, "started", selected,
                                  start_timestamp(stamp[1], slept), 0, 0, ok))
                      /\ pc' = [pc EXCEPT ![t] = after_required_emit(ok, "poll")]
    /\ accumulated_seconds' = [accumulated_seconds EXCEPT ![t] = 0]
    /\ consecutive_failures' = [consecutive_failures EXCEPT ![t] = 0]
    /\ switched_process' = [switched_process EXCEPT ![t] = FALSE]
    /\ liveness_history' = [liveness_history EXCEPT ![t] = <<>>]
    /\ UNCHANGED <<game_id, last_poll>>
    /\ UNCHANGED <<select_vars, window_vars, launch_vars, env_vars>>

\* The ended event naming the PID the session started with.
loop_exit_reporting_first_pid(t, ok) ==
    /\ events' = Append(events,
                        Event(t, "ended", EventsOf(t)[1].processId, start_time[t],
                              accumulated_seconds[t],
                              final_minutes(accumulated_seconds[t]), ok))
    /\ pc' = [pc EXCEPT ![t] = after_ended_emit(ok)]
    /\ UNCHANGED <<accumulated_seconds, clock>>

\* The code after the loop: the rounding and the ended event.
loop_exit(t, ok) ==
    /\ events' = Append(events,
                        Event(t, "ended", process_id[t], start_time[t],
                              accumulated_seconds[t],
                              final_minutes(accumulated_seconds[t]), ok))
    /\ pc' = [pc EXCEPT ![t] = after_ended_emit(ok)]
    /\ UNCHANGED <<accumulated_seconds, clock>>

\* A loop iteration with is_process_running(process_id) false, below the threshold.
poll_failure(t) ==
    /\ pc[t] = "poll"
    /\ host_running
    /\ failures_after_miss(consecutive_failures[t]) < max_failures
    /\ consecutive_failures' =
          [consecutive_failures EXCEPT ![t] = failures_after_miss(consecutive_failures[t])]
    /\ liveness_history' =
          [liveness_history EXCEPT ![t] = Remember(liveness_history[t], FALSE)]
    /\ last_poll' = [last_poll EXCEPT ![t] =
          PollRecord(t, FALSE, FALSE, FALSE, FALSE, process_id[t], FALSE, FALSE)]
    /\ pc' = [pc EXCEPT ![t] = "sleep"]
    /\ UNCHANGED <<game_id, start_time, process_id, accumulated_seconds,
                   switched_process, events, clock>>
    /\ UNCHANGED <<select_vars, window_vars, launch_vars, env_vars>>

\* A loop iteration with is_process_running(process_id) false that reaches the
\* threshold: the directory is enumerated, the selector runs, and the matched PID
\* is adopted (continue, without the sleep) or the loop breaks. capSw bounds
\* the number of adoptions of a session.
poll_switching(t, capSw) ==
    /\ pc[t] = "poll"
    /\ host_running
    /\ failures_after_miss(consecutive_failures[t]) >= max_failures
    /\ \E available_pids \in AvailableVectors :
          IF available_pids = <<>>
          THEN \E ok \in BOOLEAN :
                  /\ loop_exit(t, ok)
                  /\ liveness_history' =
                        [liveness_history EXCEPT ![t] = Remember(liveness_history[t], FALSE)]
                  /\ consecutive_failures' =
                        [consecutive_failures EXCEPT ![t] = failures_after_miss(consecutive_failures[t])]
                  /\ last_poll' = [last_poll EXCEPT ![t] =
                        PollRecord(t, FALSE, FALSE, TRUE, FALSE, process_id[t], FALSE, FALSE)]
                  /\ UNCHANGED <<process_id, switched_process>>
          ELSE \E matched_pid \in SelectResults(process_id[t]),
                  confirmed \in BOOLEAN, ok \in BOOLEAN :
                  IF adopts(process_id[t], matched_pid, switched_process[t], confirmed)
                  THEN /\ CountOf(t, "switched") < capSw
                       /\ process_id' = [process_id EXCEPT ![t] = matched_pid]
                       /\ switched_process' = [switched_process EXCEPT ![t] = TRUE]
                       /\ consecutive_failures' = [consecutive_failures EXCEPT ![t] =
                             failures_after_success(consecutive_failures[t])]
                       /\ accumulated_seconds' = [accumulated_seconds EXCEPT ![t] =
                             seconds_after_adoption(accumulated_seconds[t])]
                       /\ events' = Append(events,
                             Event(t, "switched",
                                   switched_payload_pid(process_id[t], matched_pid),
                                   0, 0, 0, ok))
                       /\ liveness_history' = [liveness_history EXCEPT ![t] = <<>>]
                       /\ last_poll' = [last_poll EXCEPT ![t] =
                             PollRecord(t, FALSE, FALSE, TRUE, TRUE, matched_pid, confirmed, TRUE)]
                       /\ pc' = [pc EXCEPT ![t] = after_switched_emit(ok)]
                       /\ UNCHANGED clock
                  ELSE /\ loop_exit(t, ok)
                       /\ liveness_history' =
                             [liveness_history EXCEPT ![t] = Remember(liveness_history[t], FALSE)]
                       /\ consecutive_failures' =
                             [consecutive_failures EXCEPT ![t] = failures_after_miss(consecutive_failures[t])]
                       /\ last_poll' = [last_poll EXCEPT ![t] =
                             PollRecord(t, FALSE, FALSE, TRUE, TRUE, matched_pid, confirmed, FALSE)]
                       /\ UNCHANGED <<process_id, switched_process>>
    /\ UNCHANGED <<game_id, start_time>>
    /\ UNCHANGED <<select_vars, window_vars, launch_vars, env_vars>>

\* A loop iteration with is_process_running(process_id) true.
poll_running(t, capSec) ==
    /\ pc[t] = "poll"
    /\ host_running
    /\ \E foreground \in ForegroundAnswers(t, capSec), ok \in BOOLEAN :
          LET seconds == IF counts_as_played(TRUE, foreground)
                         THEN accumulated_seconds[t] + 1
                         ELSE accumulated_seconds[t]
              update == seconds # accumulated_seconds[t] /\ update_due(seconds)
          IN  /\ accumulated_seconds' = [accumulated_seconds EXCEPT ![t] = seconds]
              /\ IF update
                 THEN /\ events' = Append(events,
                            Event(t, "progress", process_id[t], start_time[t], seconds,
                                  progress_minutes(seconds), ok))
                      /\ pc' = [pc EXCEPT ![t] = after_required_emit(ok, "sleep")]
                 ELSE /\ events' = events
                      /\ pc' = [pc EXCEPT ![t] = "sleep"]
              /\ last_poll' = [last_poll EXCEPT ![t] =
                    PollRecord(t, TRUE, foreground, FALSE, FALSE, process_id[t], FALSE, FALSE)]
    /\ consecutive_failures' = [consecutive_failures EXCEPT ![t] =
          failures_after_success(consecutive_failures[t])]
    /\ liveness_history' =
          [liveness_history EXCEPT ![t] = Remember(liveness_history[t], TRUE)]
    /\ UNCHANGED <<game_id, start_time, process_id, switched_process, clock>>
    /\ UNCHANGED <<select_vars, window_vars, launch_vars, env_vars>>

\* thread::sleep(Duration::from_secs(1)) at the bottom of the loop.  capElapsed
\* bounds the wall time a session is followed for.
sleep_until(t, advances, capElapsed) ==
    /\ pc[t] = "sleep"
    /\ host_running
    /\ \E slept \in advances :
          /\ clock + slept <= start_time[t] + capElapsed
          /\ clock' = clock + slept
    /\ pc' = [pc EXCEPT ![t] = "poll"]
    /\ UNCHANGED <<game_id, start_time, process_id, accumulated_seconds,
                   consecutive_failures, switched_process, events,
                   liveness_history, last_poll>>
    /\ UNCHANGED <<select_vars, window_vars, launch_vars, env_vars>>

\* The same sleep, followed for MaxElapsed seconds of wall time.
sleep(t, advances) == sleep_until(t, advances, MaxElapsed)

\* --------------------------------------- specification of a single session

Init == MonitorIdle /\ SelectIdle /\ WindowIdle /\ LaunchIdle /\ EnvWindows

Next ==
    \/ monitor_game(1, {1})
    \/ run_game_monitor_start(1, Timestamps, Untimed)
    \/ poll_failure(1)
    \/ poll_switching(1, MaxSwitches)
    \/ poll_running(1, MaxSeconds)
    \/ sleep(1, Untimed)

Spec == Init /\ [][Next]_vars

\* ------------------------------- specification of two concurrent sessions

\* monitor_game keeps no registry of running sessions: a second call, for the
\* same or for another game_id, spawns a second thread.
NextPair ==
    \E t \in Tasks :
        \/ monitor_game(t, GameIds)
        \/ run_game_monitor_start(t, PairTimestamps, Untimed)
        \/ poll_failure(t)
        \/ poll_switching(t, MaxPairSwitches)
        \/ poll_running(t, MaxPairSeconds)
        \/ sleep(t, Untimed)

SpecPair == Init /\ [][NextPair]_vars

\* --------------------------------- the launch_game command and its session

\* A caller that joins the thread it spawned.
monitor_game_joins(t) == pc[t] \in {"done", "err", "panicked"}

\* monitor_game ends right after thread::spawn: the JoinHandle is dropped, the
\* function has no await point, so `monitor_game(..).await` is ready at once.
monitor_game_returns(t) == TRUE

\* An elevated retry after every failure of Command::spawn.
needs_elevation_any_error(spawn) == spawn # "ok"

\* let needs_elevation = e.raw_os_error() == Some(740);
needs_elevation(spawn) == spawn = "err740"

\* shell_execute_runas: ShellExecuteExW("runas") on Windows, which gives the
\* PID of the elevated process or an Err; an Err on every other platform.
shell_execute_runas(runas_ok) == platform = "windows" /\ runas_ok

\* launch_game up to the end of the monitor_game call: the path checks,
\* Command::spawn, the elevated retry on os error 740, and monitor_game for
\* the PID of the process that started.  launch_attempt keeps what the
\* command met and the monitor_game calls it made.
launch_game(t, games) ==
    /\ launch_pc[t] = "idle"
    /\ \E path_ok \in BOOLEAN, spawn \in {"ok", "err740", "err"},
          runas_ok \in BOOLEAN, g \in games, pid \in PIDS :
          LET spawned == path_ok /\ spawn = "ok"
              elevation == path_ok /\ spawn # "ok" /\ needs_elevation(spawn)
              elevated == elevation /\ shell_execute_runas(runas_ok)
              attempt == [path_ok |-> path_ok, spawn |-> spawn,
                          runas_ok |-> runas_ok,
                          elevation |-> elevation, elevated |-> elevated]
          IN  IF spawned \/ elevated
              THEN /\ monitor_game_call(t, g, pid)
                   /\ launch_pid' = [launch_pid EXCEPT ![t] = pid]
                   /\ launch_pc' = [launch_pc EXCEPT ![t] = "monitoring"]
                   /\ launch_attempt' = [launch_attempt EXCEPT ![t] =
                         <<attempt @@ [monitor_calls |-> <<pid>>]>>]
                   /\ UNCHANGED launch_result
              ELSE /\ launch_pc' = [launch_pc EXCEPT ![t] = "returned"]
                   /\ launch_result' = [launch_result EXCEPT ![t] =
                         <<[success |-> FALSE, process_id |-> 0]>>]
                   /\ launch_attempt' = [launch_attempt EXCEPT ![t] =
                         <<attempt @@ [monitor_calls |-> <<>>]>>]
                   /\ UNCHANGED launch_pid
                   /\ UNCHANGED <<monitor_vars, select_vars, window_vars, env_vars>>

\* Ok(LaunchResult { success: true, .., process_id: Some(process_id) })
launch_return(t) ==
    /\ launch_pc[t] = "monitoring"
    /\ monitor_game_returns(t)
    /\ launch_pc' = [launch_pc EXCEPT ![t] = "returned"]
    /\ launch_result' = [launch_result EXCEPT ![t] =
          <<[success |-> TRUE, process_id |-> launch_pid[t]]>>]
    /\ UNCHANGED <<launch_pid, launch_attempt>>
    /\ UNCHANGED <<monitor_vars, select_vars, window_vars, env_vars>>

NextLaunch ==
    \/ launch_game(1, {1})
    \/ launch_return(1)
    \/ run_game_monitor_start(1, Timestamps, Untimed)
    \/ poll_failure(1)
    \/ poll_switching(1, MaxLaunchSwitches)
    \/ poll_running(1, MaxLaunchSeconds)
    \/ sleep(1, Untimed)

SpecLaunch == Init /\ [][NextLaunch]_vars

\* ------------------- the directory enumeration on a changing process table

\* A process with some executable starts, or a running process exits.
os_change ==
    /\ \/ \E pid \in PIDS \ DOMAIN os_exe, path \in ProcessPaths :
             os_exe' = [q \in DOMAIN os_exe \cup {pid} |->
                           IF q = pid THEN path ELSE os_exe[q]]
       \/ \E pid \in DOMAIN os_exe :
             os_exe' = [q \in DOMAIN os_exe \ {pid} |-> os_exe[q]]
    /\ UNCHANGED <<dir_path, sys_exe, dir_result, dir_prev>>
    /\ UNCHANGED <<monitor_vars, select_vars, window_vars, launch_vars, platform>>

\* get_processes_in_directory(executable_path, sys): the refresh, then the
\* loop over sys.processes() in the order of the HashMap.
dir_call ==
    /\ LET table == refresh_processes(os_exe, sys_exe)
       IN  /\ sys_exe' = table
           /\ \E pids \in get_processes_in_directory(
                              processes_in_directory(dir_path, table)) :
                 dir_result' = <<pids>>
    /\ dir_prev' = dir_result
    /\ UNCHANGED <<dir_path, os_exe>>
    /\ UNCHANGED <<monitor_vars, select_vars, window_vars, launch_vars, platform>>

InitDirectory ==
    /\ MonitorIdle
    /\ SelectIdle
    /\ WindowIdle
    /\ LaunchIdle
    /\ platform = "windows"
    /\ dir_path \in TargetPaths
    /\ os_exe = <<>>
    /\ sys_exe = <<>>
    /\ dir_result = <<>>
    /\ dir_prev = <<>>

NextDirectory == os_change \/ dir_call

SpecDirectory == InitDirectory /\ [][NextDirectory]_vars

\* ------------------------------------- a launched session that is scheduled

\* A step of the monitoring thread of session t.
ThreadStep(t) ==
    \/ run_game_monitor_start(t, Timestamps, Untimed)
    \/ poll_failure(t)
    \/ poll_switching(t, MaxLaunchSwitches)
    \/ poll_running(t, MaxLaunchSeconds)
    \/ sleep(t, Untimed)

\* The spawned thread is an OS thread: it is scheduled, and thread::sleep
\* returns, so a thread that can take a step eventually takes one.
SpecLive == Init /\ [][NextLaunch]_vars /\ WF_vars(ThreadStep(1))

\* ------------------------------- a launched session with the wall clock

\* The session of SpecLaunch with a clock that advances by the sleep's second
\* or by one more during every thread::sleep.
NextClock ==
    \/ launch_game(1, {1})
    \/ launch_return(1)
    \/ run_game_monitor_start(1, Timestamps, ClockAdvances)
    \/ poll_failure(1)
    \/ poll_switching(1, MaxClockSwitches)
    \/ poll_running(1, MaxClockSeconds)
    \/ sleep(1, ClockAdvances)

SpecClock == Init /\ [][NextClock]_vars

\* ---------------------- a session on the wall clock up to a progress event

NextWall ==
    \/ monitor_game(1, {1})
    \/ run_game_monitor_start(1, PairTimestamps, ClockAdvances)
    \/ poll_failure(1)
    \/ poll_switching(1, MaxWallSwitches)
    \/ poll_running(1, MaxWallSeconds)
    \/ sleep_until(1, ClockAdvances, MaxWallElapsed)

SpecWall == Init /\ [][NextWall]_vars

\* ------------------------------------- a session with several adoptions

NextSwitch ==
    \/ monitor_game(1, {1})
    \/ run_game_monitor_start(1, Timestamps, Untimed)
    \/ poll_failure(1)
    \/ poll_switching(1, MaxSwitchAdoptions)
    \/ poll_running(1, MaxSwitchSeconds)
    \/ sleep(1, Untimed)

SpecSwitch == Init /\ [][NextSwitch]_vars

\* ---------------------- a session on a platform without a window manager

InitOther == MonitorIdle /\ SelectIdle /\ WindowIdle /\ LaunchIdle /\ EnvOther

NextOther ==
    \/ monitor_game(1, {1})
    \/ run_game_monitor_start(1, Timestamps, Untimed)
    \/ poll_failure(1)
    \/ poll_switching(1, MaxOtherSwitches)
    \/ poll_running(1, MaxOtherSeconds)
    \/ sleep(1, Untimed)

SpecOther == InitOther /\ [][NextOther]_vars

\* ------------------- has_window_for_pid called by two threads at the same time

\* The call starts: the thread is inside has_window_for_pid(pid).
hw_call(t) ==
    /\ hw_pc[t] = "idle"
    /\ \E pid \in CandidatePids : hw_pid' = [hw_pid EXCEPT ![t] = pid]
    /\ hw_pc' = [hw_pc EXCEPT ![t] = "called"]
    /\ hw_result' = [hw_result EXCEPT ![t] = <<>>]
    /\ UNCHANGED <<FOUND_WINDOW, hw_visible>>
    /\ UNCHANGED <<monitor_vars, select_vars, launch_vars, env_vars>>

\* FOUND_WINDOW.store(false, Ordering::Relaxed);
hw_reset(t) ==
    /\ hw_pc[t] = "called"
    /\ FOUND_WINDOW' = FALSE
    /\ hw_pc' = [hw_pc EXCEPT ![t] = "reset"]
    /\ UNCHANGED <<hw_pid, hw_result, hw_visible>>
    /\ UNCHANGED <<monitor_vars, select_vars, launch_vars, env_vars>>

\* EnumWindows(enum_windows_proc, &pid): the callback stores true into the
\* static flag when it meets a visible window of the target PID.
hw_enum(t) ==
    /\ hw_pc[t] = "reset"
    /\ FOUND_WINDOW' = IF hw_pid[t] \in hw_visible THEN TRUE ELSE FOUND_WINDOW
    /\ hw_pc' = [hw_pc EXCEPT ![t] = "enumerated"]
    /\ UNCHANGED <<hw_pid, hw_result, hw_visible>>
    /\ UNCHANGED <<monitor_vars, select_vars, launch_vars, env_vars>>

\* FOUND_WINDOW.load(Ordering::Relaxed) is the function's result.
hw_load(t) ==
    /\ hw_pc[t] = "enumerated"
    /\ hw_result' = [hw_result EXCEPT ![t] = <<FOUND_WINDOW>>]
    /\ hw_pc' = [hw_pc EXCEPT ![t] = "idle"]
    /\ UNCHANGED <<FOUND_WINDOW, hw_pid, hw_visible>>
    /\ UNCHANGED <<monitor_vars, select_vars, launch_vars, env_vars>>

\* The set of PIDs that own a visible window stays what it is during the calls.
InitWindow ==
    /\ MonitorIdle
    /\ SelectIdle
    /\ LaunchIdle
    /\ EnvWindows
    /\ FOUND_WINDOW \in BOOLEAN
    /\ hw_pc = [t \in Tasks |-> "idle"]
    /\ hw_pid = [t \in Tasks |-> 100]
    /\ hw_result = [t \in Tasks |-> <<>>]
    /\ hw_visible \in SUBSET CandidatePids

NextWindow == \E t \in Tasks : hw_call(t) \/ hw_reset(t) \/ hw_enum(t) \/ hw_load(t)

SpecWindow == InitWindow /\ [][NextWindow]_vars

\* ------------------------------------------------------------- the claims

LastEventOf(t) == EventsOf(t)[Len(EventsOf(t))]

\* Everything thread t owns.
TaskState(t) ==
    <<pc[t], process_id[t], start_time[t], accumulated_seconds[t],
      consecutive_failures[t], switched_process[t], liveness_history[t],
      last_poll[t], EventsOf(t)>>

\* The step is a loop iteration of thread t.
Ticked(t) == pc[t] = "poll" /\ TaskState(t)' # TaskState(t)

\* C1, as stated, for the runs that returned (Ok or Err): every such run of
\* run_game_monitor has emitted exactly one started and exactly one ended event.
C1_ExactlyOneStartedAndEnded ==
    \A t \in Tasks :
        pc[t] \in {"done", "err"} =>
            /\ CountOf(t, "started") = 1
            /\ CountOf(t, "ended") = 1

\* C1, amended: the emit calls of a thread are one started event first (none
\* only while the thread has not begun or when get_timestamp panicked), then
\* switched and progress events, then at most one ended event, which is the last
\* and after which the thread has returned; a thread that returned Ok emitted
\* exactly one started and exactly one ended.
C1_EventOrder ==
    \A t \in Tasks :
        LET es == EventsOf(t)
        IN  /\ pc[t] \in {"none", "spawned", "panicked"} => es = <<>>
            /\ pc[t] \notin {"none", "spawned", "panicked"} =>
                  Len(es) >= 1 /\ es[1].kind = "started"
            /\ \A i \in DOMAIN es :
                  /\ i > 1 => es[i].kind \in {"switched", "progress", "ended"}
                  /\ es[i].kind = "ended" => i = Len(es) /\ pc[t] \in {"done", "err"}
            /\ pc[t] = "done" =>
                  /\ es[Len(es)].kind = "ended"
                  /\ CountOf(t, "started") = 1
                  /\ CountOf(t, "ended") = 1

\* A thread returned Ok after a started, a progress, a switched and an ended event.
C1_Witness ==
    \E t \in Tasks :
        /\ pc[t] = "done"
        /\ CountOf(t, "progress") >= 1
        /\ CountOf(t, "switched") >= 1
        /\ LastEventOf(t).kind = "ended"

\* C2: accumulated_seconds changes only on a loop iteration in which
\* is_process_running(process_id) and is_window_foreground_for_pid(process_id)
\* both answered true, and then by exactly 1; an iteration with any other
\* answers (and a switching step) leaves it unchanged.
C2_AccumulateOnlyForeground ==
    [][\A t \in Tasks :
          /\ accumulated_seconds'[t] # accumulated_seconds[t] =>
                /\ Ticked(t)
                /\ last_poll'[t][1].running
                /\ last_poll'[t][1].foreground
                /\ ~last_poll'[t][1].threshold
                /\ accumulated_seconds'[t] = accumulated_seconds[t] + 1
          /\ Ticked(t) /\ last_poll'[t][1].running /\ last_poll'[t][1].foreground =>
                accumulated_seconds'[t] = accumulated_seconds[t] + 1
      ]_vars

\* The last iteration saw the process alive and focused and counted one second
\* more; an earlier one had counted already.
C2_Witness ==
    \E t \in Tasks :
        /\ last_poll[t] # <<>>
        /\ last_poll[t][1].running
        /\ last_poll[t][1].foreground
        /\ last_poll[t][1].seconds_before >= 1
        /\ accumulated_seconds[t] = last_poll[t][1].seconds_before + 1

\* C3: a loop iteration reaches the end of the session (the loop breaks and the
\* ended event is emitted) if and only if its liveness result is the third
\* negative one in a row for the watched PID and no candidate is adopted in that
\* iteration: one or two negative results in a row never end the session, and a
\* positive result in between restarts the count.
C3_EndsOnThirdFailure ==
    [][\A t \in Tasks :
          Ticked(t) =>
              LET h == Remember(liveness_history[t], last_poll'[t][1].running)
                  third == Len(h) = 3 /\ \A i \in 1..3 : ~h[i]
                  adopted == CountOf(t, "switched")' = CountOf(t, "switched") + 1
                  ended == CountOf(t, "ended")' = CountOf(t, "ended") + 1
              IN  /\ ended <=> (third /\ ~adopted)
                  /\ adopted => third
      ]_vars

\* The session ended on the third negative result in a row, after seconds were
\* counted (so after positive results).
C3_Witness ==
    \E t \in Tasks :
        /\ pc[t] = "done"
        /\ liveness_history[t] = <<FALSE, FALSE, FALSE>>
        /\ accumulated_seconds[t] >= 1
        /\ ~last_poll[t][1].available

\* C4: the ended event carries totalSeconds = s unrounded and totalMinutes =
\* s/60 when s%60 < 30 and s/60 + 1 when s%60 >= 30, s being accumulated_seconds
\* at the loop's exit (29 -> 0, 30 -> 1, 89 -> 1, 90 -> 2).
C4_RoundingLaw ==
    \A i \in DOMAIN events :
        events[i].kind = "ended" =>
            LET s == events[i].totalSeconds
                m == events[i].totalMinutes
            IN  /\ s = accumulated_seconds[events[i].task]
                /\ s % 60 < 30 => m = s \div 60
                /\ s % 60 >= 30 => m = s \div 60 + 1
                /\ s = 29 => m = 0
                /\ s = 30 => m = 1
                /\ s = 89 => m = 1
                /\ s = 90 => m = 2

\* A session ended with 90 accumulated seconds, reported as 2 minutes.
C4_Witness ==
    \E i \in DOMAIN events :
        /\ events[i].kind = "ended"
        /\ events[i].totalSeconds = 90
        /\ events[i].totalMinutes = 2

\* C5: select_best_pid returns the result of the priority policy in strict
\* order: the original PID when it is foreground; else the original PID when the
\* enumeration is empty; else the first enumerated PID that is foreground; else
\* the first enumerated PID with a visible window; else the first enumerated
\* PID.  With original 100 not foreground, enumeration [100, 205], neither
\* foreground and only 205 with a visible window, it returns 205.
C5_PriorityPolicy ==
    sel_result # <<>> =>
        LET r == sel_result[1]
            n == Len(sel_pids)
            isFirst(S) == \E i \in 1..n : /\ sel_pids[i] = r
                                          /\ r \in S
                                          /\ \A j \in 1..(i - 1) : sel_pids[j] \notin S
            someFg == \E i \in 1..n : sel_pids[i] \in sel_fg
            someWin == \E i \in 1..n : sel_pids[i] \in sel_win
        IN  /\ sel_original \in sel_fg => r = sel_original
            /\ sel_original \notin sel_fg /\ n = 0 => r = sel_original
            /\ sel_original \notin sel_fg /\ n > 0 /\ someFg => isFirst(sel_fg)
            /\ sel_original \notin sel_fg /\ n > 0 /\ ~someFg /\ someWin => isFirst(sel_win)
            /\ sel_original \notin sel_fg /\ n > 0 /\ ~someFg /\ ~someWin => r = sel_pids[1]
            /\ (/\ sel_original = 100
                /\ sel_pids = <<100, 205>>
                /\ sel_fg \cap {100, 205} = {}
                /\ sel_win \cap {100, 205} = {205}) => r = 205

\* The scenario of the claim: 205 is selected for its visible window.
C5_Witness ==
    /\ sel_original = 100
    /\ sel_pids = <<100, 205>>
    /\ sel_fg = {}
    /\ sel_win = {205}
    /\ sel_result = <<205>>

\* C6, as stated: two invocations of select_best_pid on one snapshot (the same
\* processes under the directory, the same foreground and visible-window answers,
\* the same original PID) return the same PID, whatever the order in which the
\* process table enumerates the PIDs.
C6_OrderIndependent ==
    (sel_result # <<>> /\ sel_result2 # <<>>) => sel_result = sel_result2

\* C7, as stated: in SWITCHING the selected PID is adopted when it differs from
\* the watched PID, or when it is the watched PID, no switch has occurred yet and
\* it is confirmed alive; in every other case the session ends.
C7_AdoptsDifferingPid ==
    \A t \in Tasks :
        (last_poll[t] # <<>> /\ last_poll[t][1].threshold) =>
            LET r == last_poll[t][1]
            IN  IF /\ r.available
                   /\ (r.matched # r.watched \/ (~r.was_switched /\ r.confirmed))
                THEN /\ LastEventOf(t).kind = "switched"
                     /\ process_id[t] = r.matched
                ELSE /\ LastEventOf(t).kind = "ended"
                     /\ process_id[t] = r.watched

\* C7, amended: in SWITCHING the selected PID is adopted if and only if the
\* first enumeration is not empty, the selected PID differs from the watched PID
\* or no switch has occurred yet, and is_process_running(selected) confirms it;
\* a differing PID that is not confirmed alive is not adopted.  In every other
\* case the session ends with the watched PID unchanged.
C7_AdoptsOnlyConfirmed ==
    \A t \in Tasks :
        (last_poll[t] # <<>> /\ last_poll[t][1].threshold) =>
            LET r == last_poll[t][1]
            IN  IF /\ r.available
                   /\ (r.matched # r.watched \/ ~r.was_switched)
                   /\ r.confirmed
                THEN /\ LastEventOf(t).kind = "switched"
                     /\ LastEventOf(t).processId = r.matched
                     /\ process_id[t] = r.matched
                     /\ switched_process[t]
                     /\ consecutive_failures[t] = 0
                     /\ pc[t] = "poll"
                ELSE /\ LastEventOf(t).kind = "ended"
                     /\ process_id[t] = r.watched
                     /\ switched_process[t] = r.was_switched
                     /\ pc[t] \in {"done", "err"}

\* The selector returned a PID other than the watched one, is_process_running
\* did not confirm it, and the session ended.
C7_Witness ==
    \E t \in Tasks :
        /\ last_poll[t] # <<>>
        /\ last_poll[t][1].threshold
        /\ last_poll[t][1].available
        /\ last_poll[t][1].matched # last_poll[t][1].watched
        /\ ~last_poll[t][1].confirmed
        /\ pc[t] = "done"

\* C8, as stated: among the delivered events of one game_id, a second started
\* event is never observed before the ended event of the session that started
\* first, also when monitor_game is called again for that game_id.
C8_OneSessionPerGame ==
    \A i, j \in DOMAIN events :
        (/\ i < j
         /\ events[i].kind = "started" /\ events[i].delivered
         /\ events[j].kind = "started" /\ events[j].delivered
         /\ events[i].gameId = events[j].gameId) =>
            \E k \in (i + 1)..(j - 1) :
                /\ events[k].kind = "ended"
                /\ events[k].task = events[i].task

\* C9, as stated: has_window_for_pid(pid) returns true if and only if pid owns
\* a visible window, whatever another thread's call does meanwhile.
C9_WindowQueryIsolated ==
    \A t \in Tasks :
        (hw_pc[t] = "idle" /\ hw_result[t] # <<>>) =>
            (hw_result[t][1] <=> hw_pid[t] \in hw_visible)

\* C10: a started or progress event whose delivery failed is the thread's last
\* emit call, and the thread has returned Err: no later poll, no later event.
C10_RequiredEmitAborts ==
    \A t \in Tasks :
        LET es == EventsOf(t)
        IN  \A i \in DOMAIN es :
                (es[i].kind \in {"started", "progress"} /\ ~es[i].delivered) =>
                    /\ i = Len(es)
                    /\ pc[t] = "err"

\* A thread returned Err on an undelivered progress event.
C10_Witness ==
    \E t \in Tasks :
        /\ pc[t] = "err"
        /\ LastEventOf(t).kind = "progress"
        /\ ~LastEventOf(t).delivered
        /\ LastEventOf(t).totalSeconds = 30

\* The step is a loop iteration of thread t that adopted the matched PID.
Adopted(t) == Ticked(t) /\ last_poll'[t][1].adopted

\* The progress events of thread t, in order.
ProgressOf(t) == SelectSeq(events, LAMBDA e : e.task = t /\ e.kind = "progress")

\* The events of thread t that carry totalSeconds, in order.
TotalsOf(t) ==
    SelectSeq(events, LAMBDA e : e.task = t /\ e.kind \in {"progress", "ended"})

\* C11: the delivery result of a switched event changes nothing: right after an
\* adoption the thread is in the loop with the adopted PID watched, the
\* switched flag set, no consecutive failure and the seconds it had, whether
\* the event was delivered or not; no thread has returned Err with a switched
\* event as its last emit call, and an undelivered switched event leaves the
\* thread where a delivered one does.
C11_SwitchedFailureSwallowed ==
    \A t \in Tasks :
        /\ (pc[t] = "err" => LastEventOf(t).kind # "switched")
        /\ (last_poll[t] # <<>> /\ last_poll[t][1].adopted) =>
              LET r == last_poll[t][1]
              IN  /\ LastEventOf(t).kind = "switched"
                  /\ pc[t] = "poll"
                  /\ process_id[t] = r.matched
                  /\ switched_process[t]
                  /\ consecutive_failures[t] = 0
                  /\ accumulated_seconds[t] = r.seconds_before

\* After a switched event that was not delivered the thread went on: seconds
\* were counted for the adopted PID and a later event was delivered.
C11_Witness ==
    \E t \in Tasks :
        LET es == EventsOf(t)
        IN  \E i, j \in DOMAIN es :
                /\ i < j
                /\ es[i].kind = "switched" /\ ~es[i].delivered
                /\ es[j].kind = "progress" /\ es[j].delivered
                /\ es[j].processId = es[i].processId
                /\ pc[t] \in {"poll", "sleep"}

\* C12, as stated: a thread whose ended event was not delivered has returned
\* Ok all the same.
C12_EndedFailureNonFatal ==
    \A t \in Tasks :
        (/\ EventsOf(t) # <<>>
         /\ LastEventOf(t).kind = "ended"
         /\ ~LastEventOf(t).delivered) => pc[t] = "done"

\* C12, amended: the delivery failure of the ended event is propagated like the
\* one of a started or progress event: the thread returns Err when its last emit
\* call (started, progress or ended) was not delivered, and Ok only after a
\* delivered ended event; the undelivered ended event still carries the final
\* totals, and only the switched event is never the cause of an Err.
C12_EndedFailureReturnsErr ==
    \A t \in Tasks :
        /\ pc[t] = "done" =>
              LastEventOf(t).kind = "ended" /\ LastEventOf(t).delivered
        /\ pc[t] = "err" =>
              /\ LastEventOf(t).kind \in {"started", "progress", "ended"}
              /\ ~LastEventOf(t).delivered
        /\ (EventsOf(t) # <<>> /\ LastEventOf(t).kind = "ended") =>
              /\ pc[t] = (IF LastEventOf(t).delivered THEN "done" ELSE "err")
              /\ LastEventOf(t).totalSeconds = accumulated_seconds[t]

\* A thread returned Err on an undelivered ended event after counting seconds.
C12_Witness ==
    \E t \in Tasks :
        /\ pc[t] = "err"
        /\ LastEventOf(t).kind = "ended"
        /\ ~LastEventOf(t).delivered
        /\ LastEventOf(t).totalSeconds >= 1

\* C13: a progress event is emitted on exactly the loop iterations that
\* increment accumulated_seconds to a positive multiple of 30, one event per
\* such iteration; so the k-th progress event of a thread carries totalSeconds
\* 30 * k and the number of progress events is accumulated_seconds / 30.
C13_ProgressEveryThirty ==
    [][\A t \in Tasks :
          LET more == Len(ProgressOf(t))' - Len(ProgressOf(t))
              reached == /\ accumulated_seconds'[t] = accumulated_seconds[t] + 1
                         /\ accumulated_seconds'[t] > 0
                         /\ accumulated_seconds'[t] % 30 = 0
          IN  /\ more = (IF reached THEN 1 ELSE 0)
              /\ more = 1 => Ticked(t)
              /\ Len(ProgressOf(t))' = accumulated_seconds'[t] \div 30
              /\ \A k \in DOMAIN ProgressOf(t)' :
                    ProgressOf(t)'[k].totalSeconds = 30 * k
      ]_vars

\* Two progress events were emitted, and the last loop iteration found the
\* process alive but not foreground with the counter resting at 60: no third event.
C13_Witness ==
    \E t \in Tasks :
        /\ accumulated_seconds[t] = 60
        /\ Len(ProgressOf(t)) = 2
        /\ pc[t] = "sleep"
        /\ last_poll[t][1].running
        /\ ~last_poll[t][1].foreground
        /\ last_poll[t][1].seconds_before = 60

\* C14: accumulated_seconds never decreases, in a loop iteration, in a switch or
\* in any other step, so the totalSeconds of the progress events and of the
\* ended event of a thread never decrease along the event log.
C14_SecondsNeverDecrease ==
    [][\A t \in Tasks :
          /\ accumulated_seconds'[t] >= accumulated_seconds[t]
          /\ Adopted(t) => accumulated_seconds'[t] = accumulated_seconds[t]
          /\ \A i, j \in DOMAIN TotalsOf(t)' :
                i < j => TotalsOf(t)'[i].totalSeconds <= TotalsOf(t)'[j].totalSeconds
      ]_vars

\* A progress event, then a switch, then more seconds, then the ended event
\* with a larger total.
C14_Witness ==
    \E t \in Tasks :
        LET es == EventsOf(t)
        IN  \E i, j \in DOMAIN es :
                /\ i < j
                /\ es[i].kind = "progress"
                /\ es[j].kind = "switched"
                /\ LastEventOf(t).kind = "ended"
                /\ LastEventOf(t).totalSeconds > es[i].totalSeconds

\* C15: once monitor_game has spawned the thread, the return of launch_game is
\* possible in every state of the thread, and every step of the thread is
\* possible whether launch_game has returned or not; the return changes
\* nothing of the thread, and the thread changes nothing of the command.
C15_CallerDoesNotWait ==
    /\ [](\A t \in Tasks :
            /\ launch_pc[t] = "monitoring" => ENABLED launch_return(t)
            /\ pc[t] = "spawned" => ENABLED run_game_monitor_start(t, Timestamps, Untimed)
            /\ pc[t] = "poll" => ENABLED poll_running(t, MaxLaunchSeconds)
            /\ pc[t] = "sleep" => ENABLED sleep(t, Untimed))
    /\ [][\A t \in Tasks :
            /\ launch_pc'[t] = "returned" /\ launch_pc[t] = "monitoring" =>
                  /\ TaskState(t)' = TaskState(t)
                  /\ launch_result'[t] = <<[success |-> TRUE, process_id |-> launch_pid[t]]>>
            /\ (TaskState(t)' # TaskState(t) /\ pc[t] # "none") =>
                  <<launch_pc[t], launch_pid[t], launch_result[t]>>' =
                  <<launch_pc[t], launch_pid[t], launch_result[t]>>
       ]_vars

\* launch_game has returned its LaunchResult and the thread has not yet taken
\* its first step (the settle delay is still ahead).
C15_Witness ==
    \E t \in Tasks :
        /\ launch_pc[t] = "returned"
        /\ launch_result[t] = <<[success |-> TRUE, process_id |-> launch_pid[t]]>>
        /\ pc[t] = "spawned"

\* C16: a thread that returned Err or panicked changes nothing for the other
\* thread: each step changes the state and the events of one thread only, and
\* next to a dead thread the other one can still take its next step (start,
\* poll with either liveness answer, sleep).
C16_ErrorIsLocal ==
    /\ [](\A t, u \in Tasks :
            (t # u /\ pc[u] \in {"err", "panicked"}) =>
                /\ pc[t] = "spawned" => ENABLED run_game_monitor_start(t, PairTimestamps, Untimed)
                /\ pc[t] = "poll" =>
                      /\ ENABLED poll_running(t, MaxPairSeconds)
                      /\ ENABLED (poll_failure(t) \/ poll_switching(t, MaxPairSwitches))
                /\ pc[t] = "sleep" => ENABLED sleep(t, Untimed))
    /\ [][\A t, u \in Tasks :
            (t # u /\ TaskState(u)' # TaskState(u)) => TaskState(t)' = TaskState(t)
       ]_vars

\* One thread returned Err on its undelivered started event; the other thread
\* started after that, had its started event delivered and counted a second.
C16_Witness ==
    \E t, u \in Tasks :
        /\ t # u
        /\ pc[u] = "err"
        /\ pc[t] = "sleep"
        /\ accumulated_seconds[t] = 1
        /\ \E i, j \in DOMAIN events :
              /\ i < j
              /\ events[i].task = u /\ ~events[i].delivered
              /\ events[j].task = t /\ events[j].delivered

\* C17, as stated: a thread that left its loop did so in an iteration that
\* found the watched PID dead for the third time in a row and adopted nothing.
C17_StopsOnlyOnLoss ==
    \A t \in Tasks :
        (pc[t] \in {"done", "err"} /\ last_poll[t] # <<>>) =>
            /\ ~last_poll[t][1].running
            /\ last_poll[t][1].threshold
            /\ ~last_poll[t][1].adopted

\* C17, amended: a thread leaves its loop in two ways only: through the ended
\* event, in an iteration that found the watched PID dead for the third time in
\* a row and adopted nothing, or by returning Err on an undelivered progress
\* event, in an iteration that found the PID alive and foreground.  There is
\* no other exit: while the watched PID answers alive and the progress events
\* are delivered the thread stays in its loop, and it never emits ended after
\* an alive answer.
C17_StopsOnLossOrAbort ==
    \A t \in Tasks :
        (pc[t] \in {"done", "err"} /\ last_poll[t] # <<>>) =>
            LET r == last_poll[t][1]
            IN  \/ /\ ~r.running /\ r.threshold /\ ~r.adopted
                   /\ liveness_history[t] = <<FALSE, FALSE, FALSE>>
                   /\ LastEventOf(t).kind = "ended"
                \/ /\ r.running /\ r.foreground
                   /\ pc[t] = "err"
                   /\ LastEventOf(t).kind = "progress"
                   /\ ~LastEventOf(t).delivered
                   /\ CountOf(t, "ended") = 0

\* A session that counted more than a minute, delivered its progress events and
\* left the loop through the ended event when the PID was lost with candidates
\* in the directory but none adopted.
C17_Witness ==
    \E t \in Tasks :
        /\ pc[t] = "done"
        /\ accumulated_seconds[t] > 60
        /\ last_poll[t][1].threshold
        /\ last_poll[t][1].available
        /\ ~last_poll[t][1].adopted
        /\ \A i \in DOMAIN EventsOf(t) : EventsOf(t)[i].delivered

\* C18: an adoption sets the watched PID to the selected PID, sets the switched
\* flag, resets the failure count, appends one switched event carrying the
\* adopted PID, leaves accumulated_seconds and start_time as they were, and
\* leaves the thread at the top of the loop: its next step is the liveness
\* query on the adopted PID, with no sleep before it.
C18_AdoptionFrame ==
    [][\A t \in Tasks :
          Adopted(t) =>
              LET r == last_poll'[t][1]
              IN  /\ process_id'[t] = r.matched
                  /\ switched_process'[t]
                  /\ consecutive_failures'[t] = 0
                  /\ Len(EventsOf(t))' = Len(EventsOf(t)) + 1
                  /\ SubSeq(EventsOf(t)', 1, Len(EventsOf(t))) = EventsOf(t)
                  /\ LastEventOf(t)'.kind = "switched"
                  /\ LastEventOf(t)'.processId = r.matched
                  /\ accumulated_seconds'[t] = accumulated_seconds[t]
                  /\ start_time'[t] = start_time[t]
                  /\ game_id'[t] = game_id[t]
                  /\ pc'[t] = "poll"
      ]_vars

\* Right after the adoption of another PID, with seconds already counted: the
\* thread is at the liveness query.
C18_Witness ==
    \E t \in Tasks :
        /\ pc[t] = "poll"
        /\ last_poll[t] # <<>>
        /\ last_poll[t][1].adopted
        /\ last_poll[t][1].matched # last_poll[t][1].watched
        /\ accumulated_seconds[t] >= 1
        /\ start_time[t] \in Timestamps

\* C19: a loop iteration that finds the watched PID dead for the first or the
\* second time in a row increments consecutive_failures and goes to the sleep:
\* no event, the same watched PID, the same seconds, the same switched flag.
\* The ended event is emitted in an iteration that is the third failure in a
\* row, and its totalSeconds is the count the thread had before the failures.
C19_FailureTickFrame ==
    [][\A t \in Tasks :
          /\ (Ticked(t) /\ ~last_poll'[t][1].running /\ consecutive_failures[t] \in {0, 1}) =>
                /\ consecutive_failures'[t] = consecutive_failures[t] + 1
                /\ EventsOf(t)' = EventsOf(t)
                /\ process_id'[t] = process_id[t]
                /\ accumulated_seconds'[t] = accumulated_seconds[t]
                /\ switched_process'[t] = switched_process[t]
                /\ pc'[t] = "sleep"
          /\ (Ticked(t) /\ CountOf(t, "ended")' # CountOf(t, "ended")) =>
                /\ consecutive_failures[t] = 2
                /\ consecutive_failures'[t] = 3
                /\ ~last_poll'[t][1].running
                /\ LastEventOf(t)'.totalSeconds = accumulated_seconds[t]
                /\ accumulated_seconds'[t] = accumulated_seconds[t]
      ]_vars

\* The PID died after 10 counted seconds and nothing is in the directory: the
\* third failed iteration ended the session with totalSeconds 10.
C19_Witness ==
    \E t \in Tasks :
        /\ pc[t] = "done"
        /\ consecutive_failures[t] = 3
        /\ ~last_poll[t][1].available
        /\ LastEventOf(t).kind = "ended"
        /\ LastEventOf(t).totalSeconds = 10
        /\ CountOf(t, "switched") = 0

LastWatched(t) ==
    LET ws == SelectSeq(events, LAMBDA e : e.task = t /\ e.kind \in {"started", "switched"})
    IN  ws[Len(ws)].processId

\* The last loop iteration of thread t reached the threshold and adopted nothing.
LostProcess(t) ==
    /\ last_poll[t] # <<>>
    /\ last_poll[t][1].threshold
    /\ ~last_poll[t][1].adopted

\* C21, as stated: after the loop exit on a lost process the thread has emitted
\* the ended event and has returned Ok.
C21_LossReturnsOk ==
    \A t \in Tasks :
        LostProcess(t) => LastEventOf(t).kind = "ended" /\ pc[t] = "done"

\* C21, amended: after the loop exit on a lost process the thread has emitted
\* the ended event, with the startTime of its started event, totalSeconds equal
\* to accumulated_seconds, and the processId of the last watched PID (the PID
\* of the last switched event, or of the started event when there is none); it
\* has returned Ok when that event was delivered and Err when it was not.
C21_LossEndsSession ==
    \A t \in Tasks :
        LostProcess(t) =>
            LET e == LastEventOf(t)
            IN  /\ e.kind = "ended"
                /\ e.startTime = EventsOf(t)[1].startTime
                /\ e.startTime = start_time[t]
                /\ e.totalSeconds = accumulated_seconds[t]
                /\ e.processId = process_id[t]
                /\ e.processId = LastWatched(t)
                /\ pc[t] = (IF e.delivered THEN "done" ELSE "err")

\* A session that switched to another PID, counted seconds and returned Ok
\* after its ended event, which names the adopted PID.
C21_Witness ==
    \E t \in Tasks :
        /\ LostProcess(t)
        /\ pc[t] = "done"
        /\ CountOf(t, "switched") = 1
        /\ LastEventOf(t).processId # EventsOf(t)[1].processId
        /\ LastEventOf(t).totalSeconds >= 1

\* The step is the part of run_game_monitor before the loop, with a readable clock.
Started(t) == pc[t] = "spawned" /\ pc'[t] \in {"poll", "err"}

\* C22: the part before the loop takes the timestamp, sleeps once, selects once
\* from the initial PID and emits the started event: that event is the thread's
\* first, its processId is the selected PID, which is the watched PID from then
\* on, its startTime is the clock before the settle delay (the clock has
\* advanced by one sleep when the event is emitted), and no liveness query has
\* been made yet; a loop iteration only comes after the started event.
C22_StartingOrder ==
    /\ [][\A t \in Tasks :
            Started(t) =>
                LET e == LastEventOf(t)'
                IN  /\ EventsOf(t) = <<>>
                    /\ Len(EventsOf(t)') = 1
                    /\ e.kind = "started"
                    /\ process_id[t] = launch_pid[t]
                    /\ process_id'[t] \in SelectResults(launch_pid[t])
                    /\ e.processId = process_id'[t]
                    /\ e.startTime = start_time'[t]
                    /\ (clock' - e.startTime) \in ClockAdvances
                    /\ last_poll'[t] = <<>>
                    /\ liveness_history'[t] = <<>>
       ]_vars
    /\ [](\A t \in Tasks :
            last_poll[t] # <<>> =>
                /\ EventsOf(t)[1].kind = "started"
                /\ EventsOf(t)[1].startTime = start_time[t]
                /\ clock > start_time[t])

\* The started event names a PID other than the one launch_game passed, one
\* second after its startTime, and the loop has not begun.
C22_Witness ==
    \E t \in Tasks :
        /\ pc[t] = "poll"
        /\ last_poll[t] = <<>>
        /\ Len(EventsOf(t)) = 1
        /\ LastEventOf(t).kind = "started"
        /\ LastEventOf(t).processId # launch_pid[t]
        /\ LastEventOf(t).processId = process_id[t]
        /\ clock = LastEventOf(t).startTime + 1

\* The last loop iteration of thread t found the watched PID dead and, when it
\* looked, no process under the directory.
Gone(t) ==
    /\ last_poll[t] # <<>>
    /\ ~last_poll[t][1].running
    /\ ~last_poll[t][1].available

\* C23: a thread whose loop iterations, from some point on, all find the
\* watched PID dead and no process under the directory emits the ended event
\* (and returns Ok when the event is delivered); it does so at the latest in
\* the third such iteration in a row: the failure count never passes 3, and a
\* thread at 3 with nothing found has emitted ended.
C23_EndsWhenGone ==
    /\ \A t \in Tasks : <>[]Gone(t) => <>(CountOf(t, "ended") = 1)
    /\ [](\A t \in Tasks :
            /\ consecutive_failures[t] <= 3
            /\ (Gone(t) /\ consecutive_failures[t] = 3) =>
                  /\ LastEventOf(t).kind = "ended"
                  /\ liveness_history[t] = <<FALSE, FALSE, FALSE>>
                  /\ LastEventOf(t).delivered => pc[t] = "done")

\* The session switched once, then the adopted PID died too with nothing left
\* under the directory: it ended with every event delivered.
C23_Witness ==
    \E t \in Tasks :
        /\ Gone(t)
        /\ pc[t] = "done"
        /\ CountOf(t, "switched") = 1
        /\ consecutive_failures[t] = 3
        /\ \A i \in DOMAIN EventsOf(t) : EventsOf(t)[i].delivered

\* C24: every progress event carries the whole minutes contained in its
\* totalSeconds (60 * totalMinutes <= totalSeconds < 60 * totalMinutes + 60,
\* nothing rounded up), its totalSeconds is accumulated_seconds as the
\* iteration left it, and its processId is the PID watched in that iteration.
C24_ProgressMinutesTruncated ==
    /\ [](\A i \in DOMAIN events :
            events[i].kind = "progress" =>
                /\ 60 * events[i].totalMinutes <= events[i].totalSeconds
                /\ events[i].totalSeconds < 60 * events[i].totalMinutes + 60)
    /\ [][\A t \in Tasks :
            Len(ProgressOf(t))' # Len(ProgressOf(t)) =>
                /\ Ticked(t)
                /\ LastEventOf(t)'.kind = "progress"
                /\ LastEventOf(t)'.processId = process_id[t]
                /\ LastEventOf(t)'.processId = LastWatched(t)
                /\ LastEventOf(t)'.totalSeconds = accumulated_seconds'[t]
                /\ LastEventOf(t)'.startTime = start_time[t]
       ]_vars

\* A session that was lost at 90 counted seconds, after a switch: its third
\* progress event says 1 minute and names the adopted PID, its ended event
\* says 2 minutes.
C24_Witness ==
    \E t \in Tasks :
        /\ Len(ProgressOf(t)) = 3
        /\ ProgressOf(t)[1].totalMinutes = 0
        /\ ProgressOf(t)[3].totalSeconds = 90
        /\ ProgressOf(t)[3].totalMinutes = 1
        /\ ProgressOf(t)[3].processId # EventsOf(t)[1].processId
        /\ LastEventOf(t).kind = "ended"
        /\ LastEventOf(t).totalSeconds = 90
        /\ LastEventOf(t).totalMinutes = 2

\* ------------------------------------------------------------------- C25
\* The set of PIDs a directory enumeration has returned to its caller.
Listed(result) == IF result = <<>> THEN {} ELSE Range(result[1])

\* C25: every call of get_processes_in_directory refreshes the System's
\* process table before it reads it: after the call the System holds the
\* table the OS had when the call was made, and the PIDs returned are the
\* ones that table puts under the directory, whatever an earlier call saw.
C25_CacheRefreshed ==
    [][(sys_exe' # sys_exe \/ dir_result' # dir_result \/ dir_prev' # dir_prev)
          => /\ sys_exe' = os_exe
             /\ dir_result' # <<>>
             /\ Listed(dir_result') = processes_in_directory(dir_path, os_exe)
      ]_vars

\* Two calls with a change of the process table between them: the first
\* found PID 100 only, the second finds PID 205 only.
C25_Witness ==
    /\ dir_prev # <<>>
    /\ Listed(dir_prev) = {100}
    /\ Listed(dir_result) = {205}
    /\ DOMAIN os_exe = {205}
    /\ sys_exe = os_exe

\* ------------------------------------------------------------------- C26
\* The directory dir is target or lies under it: target followed by zero or
\* more further components.
NestedUnder(dir, target) ==
    \E k \in 0..Len(dir) : SubSeq(dir, 1, k) = target

\* The directory that contains the file at path, if Path::parent names one.
HasParent(path) == path # <<>> /\ path # <<"/">>
DirectoryOf(path) == SubSeq(path, 1, Len(path) - 1)

\* C26: get_processes_in_directory returns a PID exactly when that process
\* is running, its executable has a containing directory, and that directory
\* equals or is nested component-wise under the parent of executable_path;
\* no PID is returned twice.  When executable_path has no parent (the empty
\* path, the root) the list is empty, and select_best_pid given the empty
\* list answers original_pid.
C26_DirectoryMembership ==
    [][dir_result' # dir_result \/ dir_prev' # dir_prev =>
          /\ dir_result' # <<>>
          /\ Len(dir_result'[1]) = Cardinality(Listed(dir_result'))
          /\ \A pid \in CandidatePids :
                pid \in Listed(dir_result') <=>
                    /\ pid \in DOMAIN os_exe
                    /\ HasParent(dir_path)
                    /\ HasParent(os_exe[pid])
                    /\ NestedUnder(DirectoryOf(os_exe[pid]),
                                   DirectoryOf(dir_path))
          /\ ~HasParent(dir_path) =>
                /\ dir_result' = << <<>> >>
                /\ \A original_pid \in CandidatePids, fg, win \in SUBSET PIDS :
                      select_best_pid(original_pid, dir_result'[1], fg, win)
                          = original_pid
      ]_vars

\* The game is /games/g.exe; PID 100 runs /games/bin/h.exe in a directory
\* under it, PID 205 runs /other/g.exe: the call returns PID 100 only.
C26_Witness ==
    /\ dir_path = <<"/", "games", "g.exe">>
    /\ DOMAIN os_exe = {100, 205}
    /\ os_exe[100] = <<"/", "games", "bin", "h.exe">>
    /\ os_exe[205] = <<"/", "other", "g.exe">>
    /\ dir_result = << <<100>> >>

\* ------------------------------------------------------------------- C27
\* C27: when get_timestamp fails at the start of the task the thread dies
\* there: it has emitted no event and never emits one, it ran no selection
\* (the PID it holds is the one it was given), it made no poll, and it takes
\* no further step; a started event always carries a timestamp that was read.
C27_ClockUnreadableAtStart ==
    /\ [](\A t \in Tasks :
            pc[t] = "panicked" =>
                /\ EventsOf(t) = <<>>
                /\ last_poll[t] = <<>>
                /\ liveness_history[t] = <<>>
                /\ accumulated_seconds[t] = 0)
    /\ [](\A i \in DOMAIN events :
            events[i].kind = "started" => events[i].startTime \in Timestamps)
    /\ [][\A t \in Tasks :
            /\ (pc'[t] = "panicked" /\ pc[t] # "panicked") =>
                  /\ pc[t] = "spawned"
                  /\ process_id'[t] = process_id[t]
                  /\ events' = events
            /\ pc[t] = "panicked" => TaskState(t)' = TaskState(t)
       ]_vars

\* A thread that died of the unreadable clock, holding the PID it was given.
C27_Witness ==
    \E t \in Tasks :
        /\ pc[t] = "panicked"
        /\ process_id[t] \in PIDS
        /\ EventsOf(t) = <<>>

\* ------------------------------------------------------------------- C28
\* C28: where is_window_foreground_for_pid is constantly true, select_best_pid
\* answers original_pid whatever the directory holds, the PID a thread watches
\* is the one it was given for the whole session, every loop iteration that
\* finds the process alive adds one second, and a session emits at most one
\* switched event, which names the PID that was already watched.
C28_AlwaysForeground ==
    /\ [](\A original_pid \in PIDS :
            SelectResults(original_pid) = {original_pid})
    /\ [](\A t \in Tasks :
            /\ CountOf(t, "switched") <= 1
            /\ \A i \in DOMAIN EventsOf(t) :
                  EventsOf(t)[i].kind # "switched" =>
                      EventsOf(t)[i].processId = process_id[t]
            /\ \A i \in DOMAIN EventsOf(t) :
                  EventsOf(t)[i].kind = "switched" =>
                      EventsOf(t)[i].processId = EventsOf(t)[1].processId)
    /\ [][\A t \in Tasks :
            /\ pc[t] # "none" => process_id'[t] = process_id[t]
            /\ (Ticked(t) /\ last_poll'[t][1].running) =>
                  accumulated_seconds'[t] = accumulated_seconds[t] + 1
            /\ Adopted(t) =>
                  /\ ~switched_process[t]
                  /\ last_poll'[t][1].matched = process_id[t]
       ]_vars

\* A session on such a platform that counted two seconds, re-adopted its own
\* PID once, and ended at the next loss.
C28_Witness ==
    \E t \in Tasks :
        /\ platform = "other"
        /\ CountOf(t, "switched") = 1
        /\ switched_process[t]
        /\ LostProcess(t)
        /\ last_poll[t][1].available
        /\ LastEventOf(t).kind = "ended"
        /\ LastEventOf(t).totalSeconds = 2
        /\ LastEventOf(t).processId = EventsOf(t)[1].processId

\* ------------------------------------------------------------------- C29
\* What launch_game of thread t met, once it has run.
AttemptOf(t) == launch_attempt[t][1]

\* A process was started for thread t: Command::spawn returned Ok, or it
\* failed with os error 740 and ShellExecuteExW("runas") gave a PID.
ProcessStarted(t) ==
    /\ AttemptOf(t).path_ok
    /\ \/ AttemptOf(t).spawn = "ok"
       \/ /\ AttemptOf(t).spawn = "err740"
          /\ AttemptOf(t).runas_ok
          /\ platform = "windows"

\* C29: launch_game calls monitor_game exactly when a process was started,
\* once, with the PID of that process (the spawned one, or the elevated one
\* after os error 740), and the thread then watches that PID; it calls it
\* never and answers Err otherwise; the elevated launch is tried only after
\* os error 740; without launch_game no thread exists.
C29_MonitoringIffStarted ==
    /\ [](\A t \in Tasks :
            IF launch_attempt[t] = <<>>
            THEN pc[t] = "none" /\ launch_result[t] = <<>>
            ELSE /\ ProcessStarted(t) <=> AttemptOf(t).monitor_calls # <<>>
                 /\ ProcessStarted(t) <=> pc[t] # "none"
                 /\ ProcessStarted(t) =>
                       /\ AttemptOf(t).monitor_calls = <<launch_pid[t]>>
                       /\ launch_pc[t] \in {"monitoring", "returned"}
                       /\ launch_result[t] # <<>> =>
                             launch_result[t][1] =
                                [success |-> TRUE, process_id |-> launch_pid[t]]
                 /\ ~ProcessStarted(t) =>
                       /\ launch_pc[t] = "returned"
                       /\ launch_result[t] = <<[success |-> FALSE, process_id |-> 0]>>
                 /\ AttemptOf(t).elevation => AttemptOf(t).spawn = "err740"
                 /\ AttemptOf(t).elevated => AttemptOf(t).elevation)
    /\ [][\A t \in Tasks :
            (launch_attempt[t] = <<>> /\ launch_attempt'[t] # <<>>
                /\ AttemptOf(t)'.monitor_calls # <<>>) =>
                    /\ pc'[t] = "spawned"
                    /\ process_id'[t] = AttemptOf(t)'.monitor_calls[1]
       ]_vars

\* A launch whose spawn failed with os error 740 and whose elevated launch
\* gave PID 205: the thread for it exists and has reported PID 205 as started.
C29_Witness ==
    \E t \in Tasks :
        /\ launch_attempt[t] # <<>>
        /\ AttemptOf(t).spawn = "err740"
        /\ AttemptOf(t).elevated
        /\ AttemptOf(t).monitor_calls = <<205>>
        /\ launch_result[t] # <<>>
        /\ launch_result[t][1].success
        /\ CountOf(t, "started") = 1

\* ------------------------------------------------------------------- C30
\* The PIDs thread t has watched, in order: the processId of its started
\* event and of each of its switched events.
WatchLog(t) ==
    SelectSeq(events, LAMBDA e : e.task = t /\ e.kind \in {"started", "switched"})

\* C30: the switched flag, once set, stays set; an adoption of the PID that
\* is already watched happens only while the flag is unset, so it is the
\* first adoption of the session and there is at most one; and a loop
\* iteration at the threshold, after an adoption, in which select_best_pid
\* answers the watched PID adopts nothing and ends the session, whether or
\* not that PID is confirmed running.
C30_ReadoptionOnce ==
    /\ [](\A t \in Tasks :
            \A k \in DOMAIN WatchLog(t) :
                (k >= 2 /\ WatchLog(t)[k].processId = WatchLog(t)[k - 1].processId)
                    => k = 2)
    /\ [][\A t \in Tasks :
            /\ switched_process[t] => switched_process'[t]
            /\ Adopted(t) => switched_process'[t]
            /\ (Adopted(t) /\ last_poll'[t][1].matched = process_id[t]) =>
                  /\ ~switched_process[t]
                  /\ CountOf(t, "switched") = 0
            /\ (/\ Ticked(t)
                /\ last_poll'[t][1].threshold
                /\ last_poll'[t][1].available
                /\ switched_process[t]
                /\ last_poll'[t][1].matched = process_id[t]) =>
                  /\ ~last_poll'[t][1].adopted
                  /\ LastEventOf(t)'.kind = "ended"
                  /\ pc'[t] \in {"done", "err"}
       ]_vars

\* A session that re-adopted its own PID, then adopted another one, and ended
\* at a later loss although the selector's answer, the watched PID, was
\* confirmed running.
C30_Witness ==
    \E t \in Tasks :
        /\ Len(WatchLog(t)) = 3
        /\ WatchLog(t)[2].processId = WatchLog(t)[1].processId
        /\ WatchLog(t)[3].processId # WatchLog(t)[2].processId
        /\ LostProcess(t)
        /\ last_poll[t][1].available
        /\ last_poll[t][1].matched = process_id[t]
        /\ last_poll[t][1].confirmed
        /\ LastEventOf(t).kind = "ended"

\* ------------------------------------------------------------------- C31
\* No loop iteration that thread t remembers found the process alive, and
\* the thread adopted nothing.
NeverAlive(t) ==
    /\ CountOf(t, "switched") = 0
    /\ \A i \in DOMAIN liveness_history[t] : ~liveness_history[t][i]

\* C31, as stated: a thread that has stopped without ever finding its process
\* alive and without an adoption has emitted started and then ended, with no
\* seconds and no minutes, and nothing else.
C31_NeverAliveEnds ==
    \A t \in Tasks :
        (pc[t] \in {"done", "err"} /\ NeverAlive(t)) =>
            /\ Len(EventsOf(t)) = 2
            /\ EventsOf(t)[1].kind = "started"
            /\ EventsOf(t)[2].kind = "ended"
            /\ EventsOf(t)[2].totalSeconds = 0
            /\ EventsOf(t)[2].totalMinutes = 0

\* C31, amended: the started event is emitted before any loop iteration; when
\* it is not delivered the thread returns Err there, with no iteration and no
\* ended event.  When it is delivered and no iteration finds the process
\* alive or adopts a candidate, the first two iterations emit nothing and the
\* third emits ended, with totalSeconds 0, totalMinutes 0 and the PID of the
\* started event, as the second event of the session.
C31_NeverAliveEndsIfStarted ==
    /\ [](\A t \in Tasks :
            /\ (pc[t] \in {"poll", "sleep"} /\ NeverAlive(t)
                    /\ Len(liveness_history[t]) < 3) =>
                  /\ Len(EventsOf(t)) = 1
                  /\ EventsOf(t)[1].kind = "started"
                  /\ EventsOf(t)[1].delivered
                  /\ accumulated_seconds[t] = 0
                  /\ consecutive_failures[t] = Len(liveness_history[t])
            /\ (pc[t] \in {"done", "err"} /\ NeverAlive(t)) =>
                  \/ /\ Len(EventsOf(t)) = 1
                     /\ ~EventsOf(t)[1].delivered
                     /\ last_poll[t] = <<>>
                     /\ pc[t] = "err"
                  \/ /\ Len(EventsOf(t)) >= 2
                     /\ EventsOf(t)[1].delivered
                     /\ LastEventOf(t).kind = "ended"
                     /\ Len(liveness_history[t]) = 3)
    /\ [][\A t \in Tasks :
            /\ (pc[t] = "spawned" /\ pc'[t] \notin {"spawned", "panicked"}) =>
                  /\ last_poll'[t] = <<>>
                  /\ Len(EventsOf(t)') = 1
                  /\ EventsOf(t)'[1].kind = "started"
                  /\ pc'[t] = (IF EventsOf(t)'[1].delivered THEN "poll" ELSE "err")
            /\ (Ticked(t) /\ NeverAlive(t) /\ Len(liveness_history[t]) < 2
                    /\ ~last_poll'[t][1].running) =>
                  /\ events' = events
                  /\ pc'[t] = "sleep"
                  /\ ~last_poll'[t][1].threshold
            /\ (Ticked(t) /\ NeverAlive(t) /\ Len(liveness_history[t]) = 2
                    /\ ~last_poll'[t][1].running) =>
                  /\ last_poll'[t][1].threshold
                  /\ (~last_poll'[t][1].adopted =>
                        /\ Len(EventsOf(t)') = 2
                        /\ EventsOf(t)'[2].kind = "ended"
                        /\ EventsOf(t)'[2].totalSeconds = 0
                        /\ EventsOf(t)'[2].totalMinutes = 0
                        /\ EventsOf(t)'[2].processId = EventsOf(t)[1].processId
                        /\ EventsOf(t)'[2].startTime = EventsOf(t)[1].startTime
                        /\ pc'[t] \in {"done", "err"})
       ]_vars

\* A session that never found its process alive: three iterations, the third
\* with a candidate in the directory that was not running, and the two events.
C31_Witness ==
    \E t \in Tasks :
        /\ pc[t] = "done"
        /\ liveness_history[t] = <<FALSE, FALSE, FALSE>>
        /\ consecutive_failures[t] = 3
        /\ last_poll[t][1].available
        /\ ~last_poll[t][1].confirmed
        /\ Len(EventsOf(t)) = 2
        /\ EventsOf(t)[2].kind = "ended"
        /\ EventsOf(t)[2].totalSeconds = 0
        /\ EventsOf(t)[2].totalMinutes = 0

\* ------------------------------------------------------------------- C32
\* C32: with a clock that advances by at least one second during every
\* thread::sleep, the seconds of a progress event are at most its currentTime
\* less its startTime and those of an ended event at most its endTime less
\* its startTime; the counted seconds are behind the elapsed ones when a loop
\* iteration begins, and an adoption, which skips the sleep, changes neither.
C32_PlayTimeWithinWallTime ==
    /\ [](\A i \in DOMAIN events :
            events[i].kind \in {"progress", "ended"} =>
                events[i].totalSeconds <= events[i].time - events[i].startTime)
    /\ [](\A t \in Tasks :
            /\ pc[t] = "poll" => accumulated_seconds[t] < clock - start_time[t]
            /\ pc[t] = "sleep" => accumulated_seconds[t] <= clock - start_time[t])
    /\ [][\A t \in Tasks :
            Adopted(t) =>
                /\ accumulated_seconds'[t] = accumulated_seconds[t]
                /\ clock' = clock
                /\ pc'[t] = "poll"
       ]_vars

\* A session in the foreground on every second: its progress event reports
\* 30 seconds exactly 30 seconds after startTime, and it has ended, after a
\* loss, with those 30 seconds at least three seconds later.
C32_Witness ==
    \E t \in Tasks :
        /\ Len(ProgressOf(t)) = 1
        /\ ProgressOf(t)[1].totalSeconds = 30
        /\ ProgressOf(t)[1].time - ProgressOf(t)[1].startTime = 30
        /\ LastEventOf(t).kind = "ended"
        /\ LastEventOf(t).totalSeconds = 30
        /\ LastEventOf(t).time - LastEventOf(t).startTime >= 33

\* ------------------------------------------------------------------- C33
\* C33: consecutive_failures is at most 3; it is 0, 1 or 2 whenever a loop
\* iteration begins and during the sleep, and 3 only once the loop has been
\* left on a lost process; an iteration that finds the process running and
\* an iteration that adopts a PID leave it at 0, and an iteration that finds
\* the process dead without adopting adds exactly one.
C33_FailureCounterBounded ==
    /\ [](\A t \in Tasks :
            /\ consecutive_failures[t] \in 0..max_failures
            /\ pc[t] \in {"spawned", "poll", "sleep"} =>
                  consecutive_failures[t] < max_failures
            /\ consecutive_failures[t] = max_failures =>
                  /\ pc[t] \in {"done", "err"}
                  /\ LostProcess(t)
            /\ LostProcess(t) => consecutive_failures[t] = 3)
    /\ [][\A t \in Tasks :
            /\ (Ticked(t) /\ last_poll'[t][1].running) =>
                  consecutive_failures'[t] = 0
            /\ Adopted(t) =>
                  /\ consecutive_failures[t] = 2
                  /\ consecutive_failures'[t] = 0
                  /\ pc'[t] = "poll"
            /\ (Ticked(t) /\ ~last_poll'[t][1].running /\ ~last_poll'[t][1].adopted) =>
                  consecutive_failures'[t] = consecutive_failures[t] + 1
       ]_vars

\* After an adoption the process was missed twice and then found running: the
\* counter went 0, 1, 2 and is 0 again.
C33_Witness ==
    \E t \in Tasks :
        /\ CountOf(t, "switched") = 1
        /\ liveness_history[t] = <<FALSE, FALSE, TRUE>>
        /\ last_poll[t][1].running
        /\ consecutive_failures[t] = 0
        /\ pc[t] = "sleep"

====
